---- MODULE Spec2Model ----
(***************************************************************************)
(* Model of the VIAB BOQ Orchestrator Streamlit client (src/app.py).       *)
(*                                                                         *)
(* Strings are modelled at token granularity: a text is a sequence of      *)
(* tokens [t, v].  A raw token (punctuation, a word, a number, white       *)
(* space) has v = <<>>; the token with t = "str" is a double-quoted string *)
(* literal whose content is the text v.  Parsed JSON values (what          *)
(* json.loads / response.json() return) are trees [k, s, m]: k the kind,   *)
(* s the text of a string or number, m the ordered members of an object    *)
(* (key, val) or the elements of an array (val, with an empty key).        *)
(***************************************************************************)
EXTENDS Integers, Sequences, FiniteSets, TLC

\* ------------------------------------------------------------------------
\* Bounds of the model
\* ------------------------------------------------------------------------
MaxChat == 2
MaxIds == 3
MaxLen == 5
MaxEntries == 2

\* ------------------------------------------------------------------------
\* Texts
\* ------------------------------------------------------------------------
P(c) == [t |-> c, v |-> <<>>]
S(content) == [t |-> "str", v |-> content]

Ident2(a, b) == <<P(a), P("_"), P(b)>>

Whitespace == {" ", "\n", "\n\n"}
NumToks == {"0", "3", "4"}
LitToks == {"true", "false", "null"}

RECURSIVE Cat(_)
\* the concatenation of a sequence of texts
Cat(texts) ==
    IF texts = <<>> THEN <<>> ELSE Head(texts) \o Cat(Tail(texts))

RECURSIVE JoinWith(_, _)
\* sep.join(texts)
JoinWith(sep, texts) ==
    IF texts = <<>> THEN <<>>
    ELSE IF Len(texts) = 1 THEN texts[1]
    ELSE texts[1] \o sep \o JoinWith(sep, Tail(texts))

IsPrefixAt(word, text, i) ==
    /\ i + Len(word) - 1 <= Len(text)
    /\ \A n \in 1..Len(word) : text[i + n - 1] = word[n]

RECURSIVE Contains(_, _)
\* Python's `word in text` for two str: word occurs in the characters of
\* text, which include the characters of the quoted literals inside it
Contains(text, word) ==
    \/ \E i \in 1..Len(text) : IsPrefixAt(word, text, i)
    \/ \E i \in 1..Len(text) : Contains(text[i].v, word)

RECURSIVE strip(_)
\* str.strip(): leading and trailing white space removed
strip(text) ==
    IF text = <<>> THEN <<>>
    ELSE IF text[1].t \in Whitespace THEN strip(Tail(text))
    ELSE IF text[Len(text)].t \in Whitespace
         THEN strip(SubSeq(text, 1, Len(text) - 1))
    ELSE text

\* ------------------------------------------------------------------------
\* JSON values and Python's operations on them
\* ------------------------------------------------------------------------
JStr(text) == [k |-> "str", s |-> text, m |-> <<>>]
JNum(tok) == [k |-> "num", s |-> <<tok>>, m |-> <<>>]
JLit(name) == [k |-> name, s |-> <<>>, m |-> <<>>]
JArr(elems) ==
    [k |-> "arr", s |-> <<>>,
     m |-> [i \in 1..Len(elems) |-> [key |-> <<>>, val |-> elems[i]]]]
JObj(members) == [k |-> "obj", s |-> <<>>, m |-> members]
None == JLit("null")
Member(key, val) == [key |-> key, val |-> val]

IsDict(v) == v.k = "obj"
IsStr(v) == v.k = "str"

\* bool(v)
Truthy(v) ==
    CASE v.k = "str" -> v.s # <<>>
      [] v.k = "num" -> v.s[1].t # "0"
      [] v.k = "true" -> TRUE
      [] v.k \in {"arr", "obj"} -> v.m # <<>>
      [] OTHER -> FALSE

\* `key in v` raises TypeError for a number, a boolean and None
InRaises(v) == v.k \notin {"obj", "arr", "str"}

\* `key in v`, key a str: a key of a dict, an element of a list, a
\* substring of a str
Has(v, key) ==
    CASE v.k = "obj" -> \E i \in 1..Len(v.m) : v.m[i].key = key
      [] v.k = "arr" -> \E i \in 1..Len(v.m) : v.m[i].val = JStr(key)
      [] v.k = "str" -> Contains(v.s, key)
      [] OTHER -> FALSE

\* d[key] of a dict that has the key
Get(d, key) ==
    LET i == CHOOSE i \in 1..Len(d.m) : d.m[i].key = key IN d.m[i].val

\* d.get(key, default)
GetOr(d, key, default) ==
    IF Has(d, key) THEN Get(d, key) ELSE default

\* d[key] = val, keeping the place of a key already there
Put(members, key, val) ==
    IF \E i \in 1..Len(members) : members[i].key = key
    THEN [i \in 1..Len(members) |->
             IF members[i].key = key THEN Member(key, val) ELSE members[i]]
    ELSE Append(members, Member(key, val))

\* str(v) as an f-string renders it
Str(v) ==
    CASE v.k = "str" -> v.s
      [] v.k = "num" -> v.s
      [] v.k = "null" -> <<P("None")>>
      [] v.k = "true" -> <<P("True")>>
      [] v.k = "false" -> <<P("False")>>
      [] OTHER -> <<P("<repr>")>>

\* ------------------------------------------------------------------------
\* json.loads
\* ------------------------------------------------------------------------
RECURSIVE SkipWs(_, _)
SkipWs(toks, i) ==
    IF i <= Len(toks) /\ toks[i].t \in Whitespace THEN SkipWs(toks, i + 1) ELSE i

ParseFail == [ok |-> FALSE, val |-> None, next |-> 0]
ParseOk(val, next) == [ok |-> TRUE, val |-> val, next |-> next]

RECURSIVE ParseValue(_, _)
RECURSIVE ParseElems(_, _, _)
RECURSIVE ParseMembers(_, _, _)
RECURSIVE AfterElem(_, _, _)
RECURSIVE AfterMember(_, _, _, _)

\* one JSON value starting at token i
ParseValue(toks, i) ==
    LET j == SkipWs(toks, i) IN
    IF j > Len(toks) THEN ParseFail
    ELSE LET tk == toks[j] IN
         CASE tk.t = "str" -> ParseOk(JStr(tk.v), j + 1)
           [] tk.t \in NumToks -> ParseOk(JNum(tk), j + 1)
           [] tk.t \in LitToks -> ParseOk(JLit(tk.t), j + 1)
           [] tk.t = "[" ->
                LET c == SkipWs(toks, j + 1) IN
                IF c <= Len(toks) /\ toks[c].t = "]"
                THEN ParseOk(JArr(<<>>), c + 1)
                ELSE ParseElems(toks, j + 1, <<>>)
           [] tk.t = "{" ->
                LET c == SkipWs(toks, j + 1) IN
                IF c <= Len(toks) /\ toks[c].t = "}"
                THEN ParseOk(JObj(<<>>), c + 1)
                ELSE ParseMembers(toks, j + 1, <<>>)
           [] OTHER -> ParseFail

\* value ("," value)* "]"
ParseElems(toks, i, acc) == AfterElem(toks, acc, ParseValue(toks, i))

\* after one element r: "," and the rest, or "]"
AfterElem(toks, acc, r) ==
    IF ~r.ok THEN ParseFail
    ELSE LET c == SkipWs(toks, r.next) IN
         IF c > Len(toks) THEN ParseFail
         ELSE IF toks[c].t = "," THEN ParseElems(toks, c + 1, Append(acc, r.val))
         ELSE IF toks[c].t = "]" THEN ParseOk(JArr(Append(acc, r.val)), c + 1)
         ELSE ParseFail

\* string ":" value ("," string ":" value)* "}"
ParseMembers(toks, i, acc) ==
    LET j == SkipWs(toks, i) IN
    IF j > Len(toks) THEN ParseFail
    ELSE IF toks[j].t # "str" THEN ParseFail
    ELSE LET c == SkipWs(toks, j + 1) IN
         IF c > Len(toks) THEN ParseFail
         ELSE IF toks[c].t # ":" THEN ParseFail
         ELSE AfterMember(toks, acc, toks[j].v, ParseValue(toks, c + 1))

\* after one member key: r, "," and the rest, or "}"
AfterMember(toks, acc, key, r) ==
    IF ~r.ok THEN ParseFail
    ELSE LET e == SkipWs(toks, r.next) IN
         IF e > Len(toks) THEN ParseFail
         ELSE IF toks[e].t = "," THEN ParseMembers(toks, e + 1, Put(acc, key, r.val))
         ELSE IF toks[e].t = "}" THEN ParseOk(JObj(Put(acc, key, r.val)), e + 1)
         ELSE ParseFail

\* json.loads(text): ok = FALSE stands for the JSONDecodeError
Loaded1(toks, r) ==
    IF r.ok /\ SkipWs(toks, r.next) > Len(toks)
    THEN [ok |-> TRUE, val |-> r.val]
    ELSE [ok |-> FALSE, val |-> None]

json_loads(text) == Loaded1(text, ParseValue(text, 1))

\* ------------------------------------------------------------------------
\* Keys and fixed strings of the program
\* ------------------------------------------------------------------------
Word(w) == <<P(w)>>
success == Word("success")
error == Word("error")
content == Word("content")
metadata == Word("metadata")
workflow_responses == Ident2("workflow", "responses")
analysis_results == Ident2("analysis", "results")
boq_results == Ident2("boq", "results")
chat_responses == Ident2("chat", "responses")
boq_data == Ident2("boq", "data")
analysis_data == Ident2("analysis", "data")
interview_data == Ident2("interview", "data")
plan_summary == Ident2("plan", "summary")
room_details == Ident2("room", "details")
elevation_details == Ident2("elevation", "details")
PlanKeys == <<plan_summary, room_details, elevation_details>>
Fallback == Word("Processing completed successfully.")
DefaultBoqMsg == Word("Generate BOQ for uploaded files")
UploadMsg == Word("Please analyze these uploaded files")
UnknownError == Word("Unknown error")

\* ------------------------------------------------------------------------
\* format_dict_data
\* ------------------------------------------------------------------------
SkippedKeys ==
    {Word("timestamp"), Ident2("user", "id"), Ident2("session", "id"),
     Ident2("workflow", "type")}

\* key.replace("_", " ").title(): a word w becomes the token Cap(w)
Humanize(key) ==
    [i \in 1..Len(key) |->
        IF key[i].t = "_" THEN P(" ")
        ELSE IF key[i].t \in Whitespace THEN key[i]
        ELSE [t |-> "Cap", v |-> <<key[i]>>]]

\* the lines one item of the dict contributes
FormatItem(key, value) ==
    IF key \in SkippedKeys THEN <<>>
    ELSE IF value.k = "obj" THEN
        << <<P("**")>> \o Humanize(key) \o <<P(":**")>> >> \o
        [i \in 1..Len(value.m) |->
            <<P("  (bullet) ")>> \o Humanize(value.m[i].key) \o <<P(": ")>>
                \o Str(value.m[i].val)]
    ELSE IF value.k = "arr" THEN
        << <<P("**")>> \o Humanize(key) \o <<P(":**")>> >> \o
        [i \in 1..Len(value.m) |-> <<P("  (bullet) ")>> \o Str(value.m[i].val)]
    ELSE << <<P("**")>> \o Humanize(key) \o <<P(":**"), P(" ")>> \o Str(value) >>

format_dict_data(data) ==
    IF ~IsDict(data) THEN Str(data)
    ELSE JoinWith(<<P("\n")>>,
                  Cat([i \in 1..Len(data.m) |->
                          FormatItem(data.m[i].key, data.m[i].val)]))

\* ------------------------------------------------------------------------
\* format_workflow_response
\* ------------------------------------------------------------------------
\* the results container chosen, [] when there is none
Responses(result) ==
    IF Has(result, workflow_responses) THEN Get(result, workflow_responses)
    ELSE IF Has(result, analysis_results) THEN Get(result, analysis_results)
    ELSE IF Has(result, boq_results) THEN Get(result, boq_results)
    ELSE IF Has(result, chat_responses) THEN Get(result, chat_responses)
    ELSE JArr(<<>>)

\* what one of boq_data, analysis_data, interview_data appends
DataParts(data) ==
    IF IsDict(data) THEN
        IF Has(data, content) THEN <<Get(data, content)>>
        ELSE <<JStr(format_dict_data(data))>>
    ELSE IF IsStr(data) THEN <<data>>
    ELSE <<>>

\* the elif chain entered from its last branch
MetadataParts_InterviewFirst(md) ==
    IF Truthy(md) /\ IsDict(md) THEN
        IF Has(md, interview_data) THEN DataParts(Get(md, interview_data))
        ELSE IF Has(md, analysis_data) THEN DataParts(Get(md, analysis_data))
        ELSE IF Has(md, boq_data) THEN DataParts(Get(md, boq_data))
        ELSE <<>>
    ELSE <<>>

\* what the metadata of one step appends
MetadataParts(md) ==
    IF Truthy(md) /\ IsDict(md) THEN
        IF Has(md, boq_data) THEN DataParts(Get(md, boq_data))
        ELSE IF Has(md, analysis_data) THEN DataParts(Get(md, analysis_data))
        ELSE IF Has(md, interview_data) THEN DataParts(Get(md, interview_data))
        ELSE <<>>
    ELSE <<>>

\* what the content of one step appends
ContentParts(c) == IF Truthy(c) THEN <<c>> ELSE <<>>

\* what one step appends; the step is a dict
StepParts(step) ==
    ContentParts(GetOr(step, content, JStr(<<>>)))
        \o MetadataParts(GetOr(step, metadata, None))

RECURSIVE StepsLoop(_, _, _)
\* the loop over the steps from step i on; step.get raises AttributeError
\* on a step that is no dict
StepsLoop(steps, i, parts) ==
    IF i > Len(steps) THEN [exc |-> "", parts |-> parts]
    ELSE IF ~IsDict(steps[i].val) THEN [exc |-> "AttributeError", parts |-> parts]
    ELSE StepsLoop(steps, i + 1, parts \o StepParts(steps[i].val))

\* the loop over the container `responses`
LoopParts(responses) ==
    IF ~Truthy(responses) THEN [exc |-> "", parts |-> <<>>]
    ELSE IF responses.k = "arr" THEN StepsLoop(responses.m, 1, <<>>)
    ELSE IF responses.k = "obj" \/ responses.k = "str"
         THEN [exc |-> "AttributeError", parts |-> <<>>]
    ELSE [exc |-> "TypeError", parts |-> <<>>]

\* response_parts when the loop is over and before the fallback
ExtractedParts(result) == LoopParts(Responses(result))

\* "\n\n".join(parts): a TypeError when a part is no str
JoinParts(parts) ==
    IF \E i \in 1..Len(parts) : ~IsStr(parts[i])
    THEN [exc |-> "TypeError", parts |-> <<>>, text |-> <<>>]
    ELSE [exc |-> "",
          parts |-> [i \in 1..Len(parts) |-> parts[i].s],
          text |-> JoinWith(<<P("\n\n")>>, [i \in 1..Len(parts) |-> parts[i].s])]

\* the fallback and the return, x the outcome of the loop
Returned(x) ==
    IF x.exc # "" THEN [exc |-> x.exc, parts |-> <<>>, text |-> <<>>]
    ELSE IF x.parts = <<>> THEN JoinParts(<<JStr(Fallback)>>)
    ELSE JoinParts(x.parts)

\* [exc, parts, text]: the exception raised ("" for none), response_parts
\* at the return and the string returned
format_workflow_response(result) == Returned(ExtractedParts(result))

\* ------------------------------------------------------------------------
\* send_to_workflow
\* ------------------------------------------------------------------------
Modes == {"auto", "analyze", "boq", "chat"}

Endpoint(endpoint_type) ==
    CASE endpoint_type = "analyze" -> "/api/v1/boq/analyze-only"
      [] endpoint_type = "boq" -> "/api/v1/boq/generate-boq"
      [] endpoint_type = "chat" -> "/api/v1/boq/chat"
      [] OTHER -> "/api/v1/boq/workflow"

\* the boq branch left out
BoqMsg_NoDefault(msg, endpoint_type) == msg

\* msg after the boq branch; lower() changes no white space, so
\* msg.lower().strip() is empty exactly when strip(msg) is
BoqMsg(msg, endpoint_type) ==
    IF endpoint_type = "boq" /\ strip(msg) = <<>> THEN DefaultBoqMsg ELSE msg

\* the form fields: user_input is set always for chat and auto, and for
\* analyze and boq when msg is not empty
FormData(msg, user_id, session_id, endpoint_type) ==
    LET m == BoqMsg(msg, endpoint_type)
        ids == [user_id |-> user_id, session_id |-> session_id]
    IN
    IF endpoint_type \in {"chat", "auto"} \/ m # <<>>
    THEN ("user_input" :> m) @@ ids
    ELSE ids

\* the request requests.post sends; files is the list of file names, <<>>
\* when no file part is sent
Request(msg, files, user_id, session_id, endpoint_type) ==
    [endpoint |-> Endpoint(endpoint_type),
     data |-> FormData(msg, user_id, session_id, endpoint_type),
     files |-> files]

NoRequest == [endpoint |-> "", data |-> [user_id |-> "", session_id |-> ""], files |-> <<>>]

BackendErrorMsg(e) == <<P(":red[Backend error: "), P(e), P("]")>>
UnexpectedErrorMsg(e) == <<P(":red[Unexpected error: "), P(e), P("]")>>
ErrorMsg(detail) == <<P(":red[Error: ")>> \o detail \o <<P("]")>>

\* An outcome of an HTTP call is [kind, body, decode]: kind is "ok" for a
\* 2xx response, else the requests exception raised (ConnectionError,
\* Timeout, or HTTPError from raise_for_status); body is the response text;
\* decode is the class of the exception response.json() raises on a body
\* that is no JSON: a RequestException (requests >= 2.27) or a plain
\* ValueError (older requests).
FailureKinds == {"ConnectionError", "Timeout", "HTTPError"}
Failure(kind) == [kind |-> kind, body |-> <<>>, decode |-> "RequestException"]
Ok(body, decode) == [kind |-> "ok", body |-> body, decode |-> decode]
NoOutcome == [kind |-> "", body |-> <<>>, decode |-> ""]

\* the string returned for the value of format_workflow_response
FormattedMsg(f) == IF f.exc # "" THEN UnexpectedErrorMsg(f.exc) ELSE f.text

\* result.get("success") not looked at
ResultMsg_NoSuccessCheck(j, decode) ==
    IF ~j.ok THEN
        IF decode = "RequestException"
        THEN BackendErrorMsg("JSONDecodeError")
        ELSE UnexpectedErrorMsg("JSONDecodeError")
    ELSE IF ~IsDict(j.val) THEN UnexpectedErrorMsg("AttributeError")
    ELSE FormattedMsg(format_workflow_response(j.val))

\* the string returned once response.json() gave j
ResultMsg(j, decode) ==
    IF ~j.ok THEN
        IF decode = "RequestException"
        THEN BackendErrorMsg("JSONDecodeError")
        ELSE UnexpectedErrorMsg("JSONDecodeError")
    ELSE IF ~IsDict(j.val) THEN UnexpectedErrorMsg("AttributeError")
    ELSE IF Truthy(GetOr(j.val, success, None))
         THEN FormattedMsg(format_workflow_response(j.val))
    ELSE ErrorMsg(Str(GetOr(j.val, error, JStr(UnknownError))))

\* the string send_to_workflow returns on this outcome of requests.post
BotMsg(outcome) ==
    IF outcome.kind # "ok" THEN BackendErrorMsg(outcome.kind)
    ELSE ResultMsg(json_loads(outcome.body), outcome.decode)

\* ------------------------------------------------------------------------
\* cleanup_session, get_session_status
\* ------------------------------------------------------------------------
deleted_files == Ident2("deleted", "files")

\* cleanup_session once response.json() gave j
CleanupResult(j, decode) ==
    IF ~j.ok THEN
        [ok |-> FALSE, exc |-> IF decode = "RequestException" THEN "" ELSE "JSONDecodeError"]
    ELSE IF ~IsDict(j.val) THEN [ok |-> FALSE, exc |-> "AttributeError"]
    ELSE IF Truthy(GetOr(j.val, success, None)) THEN
        IF GetOr(j.val, deleted_files, JArr(<<>>)).k \in {"arr", "obj", "str"}
        THEN [ok |-> TRUE, exc |-> ""]
        ELSE [ok |-> FALSE, exc |-> "TypeError"]
    ELSE [ok |-> FALSE, exc |-> ""]

\* [ok, exc]: the value returned, or the exception that leaves the function
cleanup_session(outcome) ==
    IF outcome.kind # "ok" THEN [ok |-> FALSE, exc |-> ""]
    ELSE CleanupResult(json_loads(outcome.body), outcome.decode)

\* the Session Status handler once response.json() gave j
StatusResult(j, decode) ==
    IF ~j.ok THEN
        IF decode = "RequestException" THEN "" ELSE "JSONDecodeError"
    ELSE IF Truthy(j.val) /\ ~IsDict(j.val) THEN "AttributeError"
    ELSE ""

\* the exception that leaves the Session Status handler, "" for none
SessionStatusExc(outcome) ==
    IF outcome.kind # "ok" THEN ""
    ELSE StatusResult(json_loads(outcome.body), outcome.decode)

\* ------------------------------------------------------------------------
\* Plan rendering and export
\* ------------------------------------------------------------------------
\* any(key in data for key in ("plan_summary", "room_details",
\* "elevation_details")), for data that `in` accepts
AnyPlanKey(data) ==
    \E i \in 1..Len(PlanKeys) : Has(data, PlanKeys[i])

\* json.loads and the key check, as try_render_plan_json and the export
\* lookup both do them; a TypeError of `in` is caught like a parse error
Checked(j) == j.ok /\ ~InRaises(j.val) /\ AnyPlanKey(j.val)

PlanCheck(msg) == Checked(json_loads(msg))

\* data["plan_summary"] and summary.items() raise unless both are dicts
SummaryRaises(data) ==
    Has(data, plan_summary)
        /\ (~IsDict(data) \/ ~IsDict(Get(data, plan_summary)))

RoomsRaise(data) ==
    Has(data, room_details)
        /\ (\/ ~IsDict(data)
            \/ ~IsDict(Get(data, room_details))
            \/ \E i \in 1..Len(Get(data, room_details).m) :
                   ~IsDict(Get(data, room_details).m[i].val))

ElevationsRaise(data) ==
    Has(data, elevation_details)
        /\ (\/ ~IsDict(data)
            \/ ~IsDict(Get(data, elevation_details))
            \/ \E i \in 1..Len(Get(data, elevation_details).m) :
                   LET side_details == Get(data, elevation_details).m[i].val IN
                   Truthy(side_details) /\ ~IsDict(side_details))

\* render_plan_json(data) raises
RenderRaises(data) ==
    SummaryRaises(data) \/ RoomsRaise(data) \/ ElevationsRaise(data)

try_render_plan_json(bot_msg) ==
    PlanCheck(bot_msg) /\ ~RenderRaises(json_loads(bot_msg).val)

\* plan_json_to_pdf(data) raises: it reads the plan summary only
PdfRaises(data) == SummaryRaises(data)

RECURSIVE PlanLookup(_, _)
\* the index of the entry whose data becomes plan_json_msg, scanning from
\* entry i backward; 0 when plan_json_msg stays None
PlanLookup(chat_history, i) ==
    IF i = 0 THEN 0
    ELSE IF chat_history[i].role = "assistant" /\ PlanCheck(chat_history[i].msg)
         THEN i
    ELSE PlanLookup(chat_history, i - 1)

\* What the end of the script leaves on the page: export is "offered" when
\* the download button is drawn, plan is the message whose data it exports,
\* exc is the exception that ended the script run ("" for none) and at is
\* the place it was raised ("sidebar": a button handler of the sidebar,
\* "download": plan_json_to_pdf).
NoPage == [export |-> "none", plan |-> <<>>, exc |-> "", at |-> ""]
Aborted(exc, at) == [export |-> "none", plan |-> <<>>, exc |-> exc, at |-> at]

\* `if plan_json_msg:` and the rest of the script, data the plan found in msg
Export(msg, data) ==
    IF ~Truthy(data) THEN NoPage
    ELSE IF PdfRaises(data)
         THEN Aborted(IF IsDict(data) THEN "AttributeError" ELSE "TypeError", "download")
    ELSE [export |-> "offered", plan |-> msg, exc |-> "", at |-> ""]

\* the script after the lookup stopped at entry i
ExportAt(chat_history, i) ==
    IF i = 0 THEN NoPage
    ELSE Export(chat_history[i].msg, json_loads(chat_history[i].msg).val)

Download(chat_history) ==
    ExportAt(chat_history, PlanLookup(chat_history, Len(chat_history)))

\* ------------------------------------------------------------------------
\* The environment: what the backend answers and what the user enters
\* ------------------------------------------------------------------------
RECURSIVE Dumps(_)
\* the JSON text of a value, as json.dumps writes it
Dumps(v) ==
    CASE v.k = "str" -> <<S(v.s)>>
      [] v.k = "num" -> v.s
      [] v.k = "arr" ->
            <<P("[")>>
            \o JoinWith(<<P(","), P(" ")>>, [i \in 1..Len(v.m) |-> Dumps(v.m[i].val)])
            \o <<P("]")>>
      [] v.k = "obj" ->
            <<P("{")>>
            \o JoinWith(<<P(","), P(" ")>>,
                        [i \in 1..Len(v.m) |->
                            <<S(v.m[i].key), P(":"), P(" ")>> \o Dumps(v.m[i].val)])
            \o <<P("}")>>
      [] OTHER -> <<P(v.k)>>

True == JLit("true")
False == JLit("false")
Step(c) == JObj(<<Member(content, JStr(c))>>)
Reply(steps) ==
    Dumps(JObj(<<Member(success, True), Member(workflow_responses, JArr(steps))>>))

GoodPlan ==
    Dumps(JObj(<<Member(plan_summary,
                        JObj(<<Member(Ident2("total", "rooms"), JNum(P("4")))>>))>>))
RoomsPlan == Dumps(JObj(<<Member(room_details, JObj(<<>>))>>))
ScalarPlan == Dumps(JObj(<<Member(plan_summary, JNum(P("3")))>>))
ListPlan == Dumps(JArr(<<JStr(plan_summary)>>))

\* the bodies a 2xx response of the workflow endpoints may carry: no JSON,
\* no success field, a reported error, no results container, plain content,
\* a plan, a second plan, a plan whose summary is no mapping, a list naming
\* a plan key, a step that is no mapping, a step with an empty boq_data
Bodies ==
    { <<P("<html>")>>,
      Dumps(JObj(<<Member(workflow_responses, JArr(<<Step(Word("hello"))>>))>>)),
      Dumps(JObj(<<Member(success, False), Member(error, JStr(Word("file too large")))>>)),
      Dumps(JObj(<<Member(success, True)>>)),
      Reply(<<Step(Word("hello"))>>),
      Reply(<<Step(GoodPlan)>>),
      Reply(<<Step(RoomsPlan)>>),
      Reply(<<Step(ScalarPlan)>>),
      Reply(<<Step(ListPlan)>>),
      Reply(<<JNum(P("3"))>>),
      Reply(<<JObj(<<Member(metadata, JObj(<<Member(boq_data, JStr(<<>>))>>))>>)>>) }

\* every outcome of the workflow call the model draws
Outcomes ==
    {Failure(kind) : kind \in FailureKinds}
        \cup {Ok(b, "RequestException") : b \in Bodies}
        \cup {Ok(<<P("<html>")>>, "ValueError")}

\* the outcomes drawn where the identifiers, the mode and the files vary
FewOutcomes ==
    { Failure("ConnectionError"),
      Ok(Dumps(JObj(<<Member(success, True)>>)), "RequestException"),
      Ok(Reply(<<Step(GoodPlan)>>), "RequestException") }

\* the bodies a 2xx response of status and cleanup may carry
ApiBodies ==
    { <<P("<html>")>>,
      Dumps(JObj(<<Member(success, True), Member(deleted_files, JArr(<<JStr(Word("a.pdf"))>>))>>)),
      Dumps(JObj(<<Member(success, False), Member(error, JStr(Word("no session")))>>)) }

ApiOutcomes ==
    {Failure(kind) : kind \in FailureKinds}
        \cup {Ok(b, "RequestException") : b \in ApiBodies}
        \cup {Ok(<<P("<html>")>>, "ValueError")}

\* what the user may submit in the chat input
UserTexts == { <<P(" ")>>, GoodPlan }
\* what the user may enter in the two identifier fields
UserIdTexts == {"", "alice"}
SessionIdTexts == {"", "site-7"}
\* what the user may select in the file uploader
FileChoices == { <<>>, <<"plan.pdf">> }

\* ------------------------------------------------------------------------
\* State
\* ------------------------------------------------------------------------
VARIABLES
    workflow_mode,     \* the selectbox
    file_widget,       \* the files held by the file uploader
    user_id_input,     \* the text input "user_id_input"
    session_id_input,  \* the text input "session_id_input"
    session_state,     \* st.session_state: user_id, session_id,
                       \* chat_messages, file_uploader_key
    user_id,           \* user_id of the last script run
    session_id,        \* session_id of the last script run
    request,           \* the request the last run posted to a workflow
                       \* endpoint, NoRequest if it posted none
    response,          \* the outcome of that request
    page,              \* the end of the last run: export control, abort
    uuids,             \* how many uuid4 values have been stored
    payload,           \* format_workflow_response alone: its argument
    formatted,         \*   and its result
    text,              \* the plan check alone: the message
    parsed             \*   and its result

appVars ==
    <<workflow_mode, file_widget, user_id_input, session_id_input,
      session_state, user_id, session_id, request, response, page, uuids>>
fnVars == <<payload, formatted, text, parsed>>
vars == <<appVars, fnVars>>

uuid4(n) == "uuid-" \o ToString(n)

SGet(ss, key, default) == IF key \in DOMAIN ss THEN ss[key] ELSE default
SSet(ss, key, val) ==
    [k \in DOMAIN ss \cup {key} |-> IF k = key THEN val ELSE ss[k]]

\* ------------------------------------------------------------------------
\* The script, top to bottom
\* ------------------------------------------------------------------------
\* uploaded_files: the uploader is drawn in every mode but chat
uploaded_files(mode, widget) == IF mode # "chat" THEN widget ELSE <<>>

\* the selection sent whatever the mode
files_to_send_AnyMode(mode, widget) == widget

\* files_to_send of the chat input handler
files_to_send(mode, widget) ==
    IF mode # "chat" THEN uploaded_files(mode, widget) ELSE <<>>

\* the stored user id not looked at
ResolveUser_Regenerate(ss, input, n) ==
    IF input # "" THEN [ss |-> ss, id |-> input, n |-> n]
    ELSE [ss |-> SSet(ss, "user_id", uuid4(n + 1)), id |-> uuid4(n + 1), n |-> n + 1]

\* the user id: [ss, id, n]
ResolveUser(ss, input, n) ==
    IF input # "" THEN [ss |-> ss, id |-> input, n |-> n]
    ELSE IF "user_id" \in DOMAIN ss
         THEN [ss |-> SSet(ss, "user_id", ss["user_id"]), id |-> ss["user_id"], n |-> n]
    ELSE [ss |-> SSet(ss, "user_id", uuid4(n + 1)), id |-> uuid4(n + 1), n |-> n + 1]

\* the session id: [ss, id, n]
ResolveSession(ss, input, n) ==
    IF input # "" THEN [ss |-> SSet(ss, "session_id", input), id |-> input, n |-> n]
    ELSE IF "session_id" \in DOMAIN ss
         THEN [ss |-> SSet(ss, "session_id", ss["session_id"]),
               id |-> ss["session_id"], n |-> n]
    ELSE [ss |-> SSet(ss, "session_id", uuid4(n + 1)), id |-> uuid4(n + 1), n |-> n + 1]

\* the identifiers of a run: u the user id resolved, s the session id
Identifiers(u, s) ==
    [ss |-> s.ss, user_id |-> u.id, session_id |-> s.id, n |-> s.n]

SidebarSession(u, sin) == Identifiers(u, ResolveSession(u.ss, sin, u.n))

\* the sidebar down to the identifiers
Sidebar(ss, uin, sin, n) == SidebarSession(ResolveUser(ss, uin, n), sin)

\* "chat_messages" not in st.session_state
WithChat(ss) ==
    IF "chat_messages" \in DOMAIN ss THEN ss ELSE SSet(ss, "chat_messages", <<>>)

ToggleKey(ss) ==
    SSet(ss, "file_uploader_key",
         IF SGet(ss, "file_uploader_key", "file_upload_1") = "file_upload_1"
         THEN "file_upload_2" ELSE "file_upload_1")

Entry(role, msg) == [role |-> role, msg |-> msg]

\* the rest of a script run in which no button is down and no message is
\* submitted, a the sidebar's identifiers, ss the session state with the
\* transcript
RunEnd(a, ss) ==
    [ss |-> ss, user_id |-> a.user_id, session_id |-> a.session_id, n |-> a.n,
     page |-> Download(ss["chat_messages"])]

RunRest(a) == RunEnd(a, WithChat(a.ss))

\* a script run in which no button is down and no message is submitted
Run(ss, uin, sin, n) == RunRest(Sidebar(ss, uin, sin, n))

\* a script run that an exception ends after the sidebar's identifiers
AbortedRun(a, exc) ==
    [ss |-> a.ss, user_id |-> a.user_id, session_id |-> a.session_id, n |-> a.n,
     page |-> Aborted(exc, "sidebar")]

Finish(r) ==
    /\ session_state' = r.ss
    /\ user_id' = r.user_id
    /\ session_id' = r.session_id
    /\ uuids' = r.n
    /\ page' = r.page

\* the script has run: it leaves chat_messages in st.session_state
Loaded == "chat_messages" \in DOMAIN session_state
chat_messages == SGet(session_state, "chat_messages", <<>>)

\* ------------------------------------------------------------------------
\* Initial state: the browser session is open, the script has not run yet
\* ------------------------------------------------------------------------
Unformatted ==
    [done |-> FALSE, exc |-> "", parts |-> <<>>, text |-> <<>>, extracted |-> <<>>]
Unparsed == [done |-> FALSE, lookup |-> FALSE, render |-> FALSE, plan |-> None]

InitApp ==
    /\ workflow_mode = "auto"
    /\ file_widget = <<>>
    /\ user_id_input = ""
    /\ session_id_input = ""
    /\ session_state = <<>>
    /\ user_id = ""
    /\ session_id = ""
    /\ request = NoRequest
    /\ response = NoOutcome
    /\ page = NoPage
    /\ uuids = 0

Init ==
    /\ InitApp
    /\ payload = None
    /\ formatted = Unformatted
    /\ text = <<>>
    /\ parsed = Unparsed

\* ------------------------------------------------------------------------
\* Actions: one user interaction and the script run(s) it triggers
\* ------------------------------------------------------------------------
NoPost == request' = NoRequest /\ response' = NoOutcome

\* the page is opened: the first script run
Load ==
    /\ ~Loaded
    /\ Finish(Run(session_state, user_id_input, session_id_input, uuids))
    /\ NoPost
    /\ UNCHANGED <<workflow_mode, file_widget, user_id_input, session_id_input, fnVars>>

\* the user picks another workflow mode
SelectMode(mode) ==
    /\ Loaded
    /\ mode # workflow_mode
    /\ workflow_mode' = mode
    /\ Finish(Run(session_state, user_id_input, session_id_input, uuids))
    /\ NoPost
    /\ UNCHANGED <<file_widget, user_id_input, session_id_input, fnVars>>

\* the user changes the selection of the file uploader, which is drawn in
\* every mode but chat; a selection made before a switch to chat is kept
\* here (dropping it is the same as deselecting after switching back)
SelectFiles(files) ==
    /\ Loaded
    /\ workflow_mode # "chat"
    /\ files # file_widget
    /\ file_widget' = files
    /\ Finish(Run(session_state, user_id_input, session_id_input, uuids))
    /\ NoPost
    /\ UNCHANGED <<workflow_mode, user_id_input, session_id_input, fnVars>>

\* the user edits the User ID field
EnterUserId(id) ==
    /\ Loaded
    /\ id # user_id_input
    /\ user_id_input' = id
    /\ Finish(Run(session_state, id, session_id_input, uuids))
    /\ NoPost
    /\ UNCHANGED <<workflow_mode, file_widget, session_id_input, fnVars>>

\* the user edits the Session ID field
EnterSessionId(id) ==
    /\ Loaded
    /\ id # session_id_input
    /\ session_id_input' = id
    /\ Finish(Run(session_state, user_id_input, id, uuids))
    /\ NoPost
    /\ UNCHANGED <<workflow_mode, file_widget, user_id_input, fnVars>>

\* the transcript assigned, not appended to
AppendChat_Overwrite(ss, entry) == SSet(ss, "chat_messages", <<entry>>)

\* st.session_state["chat_messages"].append(entry)
AppendChat(ss, entry) ==
    SSet(ss, "chat_messages", Append(ss["chat_messages"], entry))

\* the upload handler, a the sidebar's identifiers: the post, the append,
\* the new uploader key, the rerun
UploadHandler(a, outcome) ==
    /\ request' = Request(UploadMsg, uploaded_files(workflow_mode, file_widget),
                          a.user_id, a.session_id, workflow_mode)
    /\ response' = outcome
    /\ file_widget' = <<>>
    /\ Finish(Run(ToggleKey(AppendChat(WithChat(a.ss), Entry("assistant", BotMsg(outcome)))),
                  user_id_input, session_id_input, a.n))

\* the Upload Files button, drawn when files are selected
Upload(outcome) ==
    /\ Loaded
    /\ uploaded_files(workflow_mode, file_widget) # <<>>
    /\ Len(chat_messages) + 1 <= MaxChat
    /\ UploadHandler(Sidebar(session_state, user_id_input, session_id_input, uuids), outcome)
    /\ UNCHANGED <<workflow_mode, user_id_input, session_id_input, fnVars>>

\* the end of the chat handler: the new uploader key when files were sent
AfterChat(ss, files) == IF files # <<>> THEN ToggleKey(ss) ELSE ss

\* the chat input handler, a the sidebar's identifiers: the two appends,
\* the post, the rerun
ChatHandler(a, user_msg, files, outcome) ==
    /\ request' = Request(user_msg, files, a.user_id, a.session_id, workflow_mode)
    /\ response' = outcome
    /\ file_widget' = IF files # <<>> THEN <<>> ELSE file_widget
    /\ Finish(Run(AfterChat(AppendChat(AppendChat(WithChat(a.ss), Entry("user", user_msg)),
                                       Entry("assistant", BotMsg(outcome))),
                            files),
                  user_id_input, session_id_input, a.n))

\* a message submitted in the chat input
Chat(user_msg, outcome) ==
    /\ Loaded
    /\ Len(chat_messages) + 2 <= MaxChat
    /\ ChatHandler(Sidebar(session_state, user_id_input, session_id_input, uuids),
                   user_msg, files_to_send(workflow_mode, file_widget), outcome)
    /\ UNCHANGED <<workflow_mode, user_id_input, session_id_input, fnVars>>

\* New Session that only clears the transcript
NewSessionHandler_KeepSession(a) ==
    Finish(Run(SSet(a.ss, "chat_messages", <<>>), user_id_input, session_id_input, a.n))

\* the New Session handler, a the sidebar's identifiers: a new session id,
\* an empty transcript, the rerun
NewSessionHandler(a) ==
    Finish(Run(SSet(SSet(a.ss, "session_id", uuid4(a.n + 1)), "chat_messages", <<>>),
               user_id_input, session_id_input, a.n + 1))

\* the New Session button
NewSession ==
    /\ Loaded
    /\ uuids < MaxIds
    /\ NewSessionHandler(Sidebar(session_state, user_id_input, session_id_input, uuids))
    /\ NoPost
    /\ UNCHANGED <<workflow_mode, file_widget, user_id_input, session_id_input, fnVars>>

\* Cleanup that clears the transcript whatever cleanup_session returned
CleanupHandler_AlwaysClear(a, c) ==
    Finish(IF c.exc # "" THEN AbortedRun(a, c.exc)
           ELSE Run(SSet(a.ss, "chat_messages", <<>>),
                    user_id_input, session_id_input, a.n))

\* the Cleanup handler, c what cleanup_session did: on True the transcript
\* is cleared and the script reruns, on False the run goes on, an exception
\* ends the run
CleanupHandler(a, c) ==
    Finish(IF c.exc # "" THEN AbortedRun(a, c.exc)
           ELSE Run(IF c.ok THEN SSet(a.ss, "chat_messages", <<>>) ELSE a.ss,
                    user_id_input, session_id_input, a.n))

\* the Cleanup button
Cleanup(outcome) ==
    /\ Loaded
    /\ CleanupHandler(Sidebar(session_state, user_id_input, session_id_input, uuids),
                      cleanup_session(outcome))
    /\ NoPost
    /\ UNCHANGED <<workflow_mode, file_widget, user_id_input, session_id_input, fnVars>>

\* the Session Status handler, exc the exception that leaves it
StatusHandler(a, exc) ==
    Finish(IF exc # "" THEN AbortedRun(a, exc)
           ELSE Run(a.ss, user_id_input, session_id_input, a.n))

\* the Session Status button
SessionStatus(outcome) ==
    /\ Loaded
    /\ StatusHandler(Sidebar(session_state, user_id_input, session_id_input, uuids),
                     SessionStatusExc(outcome))
    /\ NoPost
    /\ UNCHANGED <<workflow_mode, file_widget, user_id_input, session_id_input, fnVars>>

\* The application: every interaction, with a few outcomes of the workflow
\* call.
Next ==
    \/ Load
    \/ \E mode \in Modes : SelectMode(mode)
    \/ \E files \in FileChoices : SelectFiles(files)
    \/ \E id \in UserIdTexts : EnterUserId(id)
    \/ \E id \in SessionIdTexts : EnterSessionId(id)
    \/ \E outcome \in FewOutcomes : Upload(outcome)
    \/ \E user_msg \in UserTexts, outcome \in FewOutcomes : Chat(user_msg, outcome)
    \/ NewSession
    \/ \E outcome \in ApiOutcomes : Cleanup(outcome)
    \/ \E outcome \in ApiOutcomes : SessionStatus(outcome)

Spec == Init /\ [][Next]_vars

\* The transcript: sends, uploads, new session, cleanup and status with
\* every outcome of the calls; the mode and the identifier fields stay as
\* the page first shows them.
NextTranscript ==
    \/ Load
    \/ \E files \in FileChoices : SelectFiles(files)
    \/ \E outcome \in Outcomes : Upload(outcome)
    \/ \E user_msg \in UserTexts, outcome \in Outcomes : Chat(user_msg, outcome)
    \/ NewSession
    \/ \E outcome \in ApiOutcomes : Cleanup(outcome)
    \/ \E outcome \in ApiOutcomes : SessionStatus(outcome)

SpecTranscript == Init /\ [][NextTranscript]_vars

\* ------------------------------------------------------------------------
\* format_workflow_response alone, on every payload of a bounded set
\* ------------------------------------------------------------------------
Text(w) == JStr(Word(w))

\* the content of a step: none, or one of two texts
ContentChoices ==
    { <<>>, <<Member(content, Text("A"))>>, <<Member(content, Text("B"))>> }

\* the metadata of a step, as the members of the mapping
MetadataMembers ==
    { <<>>,
      <<Member(boq_data, Text("Q"))>>,
      <<Member(analysis_data, Text("N"))>>,
      <<Member(interview_data, Text("I"))>>,
      <<Member(interview_data, Text("I")), Member(analysis_data, Text("N")),
        Member(boq_data, Text("Q"))>>,
      <<Member(interview_data, Text("I")),
        Member(analysis_data, JObj(<<Member(content, Text("NC"))>>))>>,
      <<Member(boq_data, JObj(<<Member(Ident2("room", "count"), JNum(P("3")))>>))>>,
      <<Member(boq_data, JObj(<<Member(Word("timestamp"), JNum(P("3")))>>))>>,
      <<Member(boq_data, JStr(<<>>))>>,
      <<Member(boq_data, JNum(P("3"))), Member(analysis_data, Text("N"))>> }

MetadataChoices ==
    { <<>> } \cup { <<Member(metadata, JObj(ms))>> : ms \in MetadataMembers }

\* the steps: mappings, and three that the data model does not foresee
Steps ==
    { JObj(c \o md) : c \in ContentChoices, md \in MetadataChoices }
        \cup { JObj(<<Member(content, JStr(<<>>))>>),
               JObj(<<Member(content, JNum(P("3")))>>),
               JNum(P("3")) }

\* the payloads with the list l of steps: in the only container, and in a
\* container that a higher one hides
WithSteps(l) ==
    { JObj(<<Member(success, True), Member(workflow_responses, JArr(l))>>),
      JObj(<<Member(success, True), Member(chat_responses, JArr(<<Step(Word("Z"))>>)),
             Member(analysis_results, JArr(l))>>) }

\* the payloads with no container, and with a container that is no list
NoSteps ==
    { JObj(<<Member(success, True)>>),
      JObj(<<Member(success, True), Member(boq_results, None)>>),
      JObj(<<Member(success, True), Member(boq_results, Text("A"))>>),
      JObj(<<Member(success, True), Member(boq_results, JNum(P("3")))>>) }

InitNormalize ==
    /\ InitApp
    /\ \/ \E n \in 0..MaxEntries : \E l \in [1..n -> Steps] : payload \in WithSteps(l)
       \/ payload \in NoSteps
    /\ formatted = Unformatted
    /\ text = <<>>
    /\ parsed = Unparsed

\* the record kept of one call: the blocks extracted by the loop, and what
\* the call returned or raised
Called(x, f) ==
    [done |-> TRUE, exc |-> f.exc, parts |-> f.parts, text |-> f.text,
     extracted |-> x.parts]

Format ==
    /\ ~formatted.done
    /\ formatted' = Called(ExtractedParts(payload), format_workflow_response(payload))
    /\ UNCHANGED <<appVars, payload, text, parsed>>

NextNormalize == Format

SpecNormalize == InitNormalize /\ [][NextNormalize]_vars

\* ------------------------------------------------------------------------
\* The plan check alone, on every text of a bounded length
\* ------------------------------------------------------------------------
PlanAlphabet ==
    { P("{"), P("}"), P("["), P("]"), P(":"), P(","),
      S(plan_summary), S(Word("name")), P("3"), P("hello") }

PlanTexts == UNION { [1..n -> PlanAlphabet] : n \in 0..MaxLen }

InitPlan ==
    /\ InitApp
    /\ payload = None
    /\ formatted = Unformatted
    /\ text \in PlanTexts
    /\ parsed = Unparsed

\* the record kept of one check: what the export lookup takes as the plan
\* and whether try_render_plan_json returns True
Looked(msg, j) ==
    [done |-> TRUE,
     lookup |-> Checked(j),
     render |-> try_render_plan_json(msg),
     plan |-> IF Checked(j) THEN j.val ELSE None]

TryParse ==
    /\ ~parsed.done
    /\ parsed' = Looked(text, json_loads(text))
    /\ UNCHANGED <<appVars, payload, formatted, text>>

NextPlan == TryParse

SpecPlan == InitPlan /\ [][NextPlan]_vars

\* ------------------------------------------------------------------------
\* Cleanup and Session Status, with the identifier fields edited one by one
\* ------------------------------------------------------------------------
NextCleanup ==
    \/ Load
    \/ \E id \in UserIdTexts : EnterUserId(id)
    \/ \E id \in SessionIdTexts : EnterSessionId(id)
    \/ \E user_msg \in UserTexts, outcome \in FewOutcomes : Chat(user_msg, outcome)
    \/ NewSession
    \/ \E outcome \in ApiOutcomes : Cleanup(outcome)
    \/ \E outcome \in ApiOutcomes : SessionStatus(outcome)

SpecCleanup == Init /\ [][NextCleanup]_vars

\* ------------------------------------------------------------------------
\* The two identifier fields edited in the same way
\* ------------------------------------------------------------------------
\* what is done to a field: an override is typed in, or the field is emptied
Patterns == {"entered", "cleared"}

\* the text a field holds after it
FieldText(texts, pattern) ==
    IF pattern = "entered" THEN CHOOSE t \in texts : t # "" ELSE ""

\* the script run after the second of two edits, r the run after the first
SecondRun(r, uin, sin) == Run(r.ss, uin, sin, r.n)

\* the user edits the User ID field and then the Session ID field in the
\* same way: a script run after each edit
EnterBoth(pattern) ==
    /\ Loaded
    /\ FieldText(UserIdTexts, pattern) # user_id_input
    /\ user_id_input' = FieldText(UserIdTexts, pattern)
    /\ session_id_input' = FieldText(SessionIdTexts, pattern)
    /\ Finish(SecondRun(Run(session_state, FieldText(UserIdTexts, pattern),
                            session_id_input, uuids),
                        FieldText(UserIdTexts, pattern),
                        FieldText(SessionIdTexts, pattern)))
    /\ NoPost
    /\ UNCHANGED <<workflow_mode, file_widget, fnVars>>

NextIdentity ==
    \/ Load
    \/ \E pattern \in Patterns : EnterBoth(pattern)
    \/ \E user_msg \in UserTexts, outcome \in Outcomes : Chat(user_msg, outcome)
    \/ \E outcome \in ApiOutcomes : Cleanup(outcome)
    \/ \E outcome \in ApiOutcomes : SessionStatus(outcome)

SpecIdentity == Init /\ [][NextIdentity]_vars

\* ========================================================================
\* Properties
\* ========================================================================

\* ---- format_workflow_response (SpecNormalize) -------------------------

\* every block of a list of blocks is the empty text
AllEmpty(parts) == \A i \in 1..Len(parts) : parts[i] = <<>>

\* C1: a call of format_workflow_response that returns never returns the
\* empty string, and when the steps yield no block that is not empty (no
\* container, an empty container, steps without content and without a
\* usable metadata value) it returns the single block
\* "Processing completed successfully."
C1_NeverEmpty ==
    (formatted.done /\ formatted.exc = "") =>
        /\ formatted.text # <<>>
        /\ formatted.parts # <<>>
        /\ AllEmpty(formatted.parts) => formatted.parts = <<Fallback>>

\* The contribution of one step as the rule states it: the content when not
\* empty, then the block of the first key present among boq_data,
\* analysis_data, interview_data.
MetadataKeys == <<boq_data, analysis_data, interview_data>>

FirstKey(md) ==
    CHOOSE i \in 1..Len(MetadataKeys) :
        /\ Has(md, MetadataKeys[i])
        /\ \A j \in 1..(i - 1) : ~Has(md, MetadataKeys[j])

MetadataBlock(md) ==
    IF IsDict(md) /\ \E i \in 1..Len(MetadataKeys) : Has(md, MetadataKeys[i])
    THEN DataParts(Get(md, MetadataKeys[FirstKey(md)]))
    ELSE <<>>

ContentBlock(step) ==
    IF Has(step, content) /\ Truthy(Get(step, content))
    THEN <<Get(step, content)>>
    ELSE <<>>

Contribution(step) ==
    ContentBlock(step) \o MetadataBlock(GetOr(step, metadata, None))

Contributions(steps) ==
    Cat([i \in 1..Len(steps) |-> Contribution(steps[i].val)])

\* the chosen container is a list of mappings
ListOfSteps(responses) ==
    /\ responses.k = "arr"
    /\ \A i \in 1..Len(responses.m) : IsDict(responses.m[i].val)

Strings(parts) == [i \in 1..Len(parts) |-> parts[i].s]

OrderedBlocks(responses, f) ==
    ListOfSteps(responses) =>
        /\ f.extracted = Contributions(responses.m)
        /\ (f.exc = "" /\ f.extracted # <<>>) => f.parts = Strings(f.extracted)

\* C2: when the chosen container is a list of steps, the blocks extracted
\* are the contributions of the steps in the order of the steps, each the
\* content when not empty followed by at most one block, that of the first
\* key present among boq_data, analysis_data, interview_data; these blocks,
\* when there is one, are the blocks returned.
C2_OrderAndPriority ==
    formatted.done => OrderedBlocks(Responses(payload), formatted)

\* two steps, the first with a content and the three keys, the second with
\* a content and the two lower keys
C2_Witness ==
    /\ formatted.done
    /\ Len(Responses(payload).m) = 2
    /\ formatted.parts = <<Word("A"), Word("Q"), Word("B"), Word("NC")>>

\* ---- the plan check (SpecPlan) ------------------------------------------

\* a JSON object with one of the three keys among its top-level keys
PlanObject(j) ==
    /\ j.ok
    /\ IsDict(j.val)
    /\ \E i \in 1..Len(j.val.m) : \E n \in 1..Len(PlanKeys) :
           j.val.m[i].key = PlanKeys[n]

\* C3: the parse and key check takes a text as a plan exactly when the text
\* is valid JSON with plan_summary, room_details or elevation_details as a
\* top-level key, and try_render_plan_json renders exactly those texts.
C3_PlanIffTopLevelKey ==
    parsed.done =>
        /\ parsed.lookup <=> PlanObject(json_loads(text))
        /\ parsed.render <=> PlanObject(json_loads(text))

\* ---- the export control (SpecTranscript) --------------------------------

\* the assistant entries whose message is a plan
PlanEntries(chat_history) ==
    { i \in 1..Len(chat_history) :
        /\ chat_history[i].role = "assistant"
        /\ PlanObject(json_loads(chat_history[i].msg)) }

Newest(entries) == CHOOSE i \in entries : \A j \in entries : j <= i

ExportOf(chat_history, plans, pg) ==
    /\ pg.exc = ""
    /\ pg.export = "offered" <=> plans # {}
    /\ pg.export = "offered" => pg.plan = chat_history[Newest(plans)].msg

\* C4: at the end of every script run that no sidebar handler ended, the
\* download control is offered exactly when some assistant entry is a plan,
\* the plan exported is the newest such entry, and the run was not aborted.
C4_ExportIffPlan ==
    (Loaded /\ page.at # "sidebar") =>
        ExportOf(chat_messages, PlanEntries(chat_messages), page)

\* the fields of the last request
Sent == request # NoRequest
LastMsg == chat_messages[Len(chat_messages)].msg

IsErrorMsg(msg) ==
    /\ msg # <<>>
    /\ msg[1].t \in {":red[Backend error: ", ":red[Unexpected error: ", ":red[Error: "}

\* ---- the transcript (SpecTranscript) ------------------------------------

Extends(old, new) ==
    /\ Len(old) <= Len(new)
    /\ SubSeq(new, 1, Len(old)) = old

\* the entries a send appended: a user entry at most, then one assistant
\* entry with an error message
OneError(added) ==
    /\ Len(added) \in {1, 2}
    /\ added[Len(added)].role = "assistant"
    /\ IsErrorMsg(added[Len(added)].msg)
    /\ Len(added) = 2 => added[1].role = "user"

FailedSend(old, new) ==
    /\ Extends(old, new)
    /\ OneError(SubSeq(new, Len(old) + 1, Len(new)))

ClearingStep ==
    \/ NewSession
    \/ \E outcome \in ApiOutcomes : Cleanup(outcome) /\ cleanup_session(outcome).ok

BadStep(responses) ==
    /\ responses.k = "arr"
    /\ \E i \in 1..Len(responses.m) : ~IsDict(responses.m[i].val)

NoContainer(result) ==
    /\ ~Has(result, workflow_responses)
    /\ ~Has(result, analysis_results)
    /\ ~Has(result, boq_results)
    /\ ~Has(result, chat_responses)

\* the body is no JSON, or JSON without the fields looked for
Malformed(j) ==
    \/ ~j.ok
    \/ ~IsDict(j.val)
    \/ ~Has(j.val, success)
    \/ NoContainer(j.val)
    \/ BadStep(Responses(j.val))

\* C8 as stated: after a 2xx response with a malformed body the message
\* appended is not empty and is no error message.
C8_Absorbed ==
    (Sent /\ response.kind = "ok" /\ Malformed(json_loads(response.body)))
        => (LastMsg # <<>> /\ ~IsErrorMsg(LastMsg))

Succeeded(j) == j.ok /\ IsDict(j.val) /\ Truthy(GetOr(j.val, success, None))

Surfaced(j, msg) ==
    /\ ~Succeeded(j) => IsErrorMsg(msg)
    /\ (Succeeded(j) /\ BadStep(Responses(j.val))) => IsErrorMsg(msg)
    /\ (Succeeded(j) /\ ~Truthy(Responses(j.val))) => msg = Fallback

\* C8: after a 2xx response, a body that is no JSON, no JSON object or an
\* object without a true success field gives an error message, and so does
\* a step of the chosen container that is no mapping; an object with a true
\* success field and no container, or an empty one, gives the fallback
\* block, which is no error message.
C8_AbsorbedOnlyWithSuccess ==
    (Sent /\ response.kind = "ok")
        => Surfaced(json_loads(response.body), LastMsg)

\* a success with no results container: the fallback is appended
C8_Witness ==
    /\ Sent
    /\ response.kind = "ok"
    /\ NoContainer(json_loads(response.body).val)
    /\ LastMsg = Fallback
    /\ ~IsErrorMsg(LastMsg)

\* ---- the identifiers (Spec) ---------------------------------------------

Stored(ss, key) == SGet(ss, key, "")

\* C5: with no override in the field, the first script run generates an
\* identifier and stores it, every later run resolves to the stored one
\* (the session id unless New Session is pressed), and each request carries
\* the identifiers of its run.
C5_GenerateOnce ==
    [][/\ (~Loaded /\ Loaded' /\ user_id_input' = "")
            => (user_id' # "" /\ Stored(session_state', "user_id") = user_id')
       /\ (~Loaded /\ Loaded' /\ session_id_input' = "")
            => (session_id' # "" /\ Stored(session_state', "session_id") = session_id'
                    /\ session_id' # user_id')
       /\ (Loaded /\ user_id_input = "" /\ user_id_input' = "")
            => (user_id' = user_id /\ Stored(session_state', "user_id") = user_id)
       /\ (Loaded /\ session_id_input = "" /\ session_id_input' = "" /\ ~NewSession)
            => (session_id' = session_id
                    /\ Stored(session_state', "session_id") = session_id)
       /\ request' # NoRequest
            => (request'.data.user_id = user_id'
                    /\ request'.data.session_id = session_id')]_vars

\* a second request, with the identifiers the first run generated
C5_Witness ==
    /\ Sent
    /\ user_id_input = ""
    /\ session_id_input = ""
    /\ Len(chat_messages) = 2
    /\ chat_messages[1].role = "assistant"
    /\ request.data.user_id = uuid4(1)
    /\ request.data.session_id = uuid4(2)

\* C6 as stated: after New Session the session id of the following run is
\* a new generated identifier, not the previous one, the transcript is
\* empty and the user id is the same, whatever is in the fields.
C6_Unconditional ==
    [][NewSession =>
          /\ session_id' = uuid4(uuids')
          /\ uuids' = uuids + 1
          /\ session_id' # session_id
          /\ chat_messages' = <<>>
          /\ user_id' = user_id]_vars

\* C6: after New Session the transcript is empty, the user id and the
\* stored user id are the same; with the Session ID field empty the session
\* id of the following run is a new generated identifier, not the previous
\* one; with an override in the field it is the override, which is stored
\* over the generated one.
C6_UnlessOverride ==
    [][NewSession =>
          /\ chat_messages' = <<>>
          /\ user_id' = user_id
          /\ Stored(session_state', "user_id") = Stored(session_state, "user_id")
          /\ uuids' = uuids + 1
          /\ session_id_input = ""
                => /\ session_id' = uuid4(uuids')
                   /\ session_id' # session_id
                   /\ Stored(session_state', "session_id") = session_id'
          /\ session_id_input # ""
                => /\ session_id' = session_id_input
                   /\ Stored(session_state', "session_id") = session_id_input]_vars

\* New Session was pressed: a third identifier is the session id
C6_Witness ==
    /\ Loaded
    /\ session_id_input = ""
    /\ uuids > 2
    /\ session_id = uuid4(uuids)
    /\ user_id = uuid4(1)
    /\ chat_messages = <<>>

\* ---- the requests (Spec) ------------------------------------------------

\* C9: a request to the chat endpoint carries no file part.
C9_ChatSendsNoFiles ==
    request.endpoint = Endpoint("chat") => request.files = <<>>

\* a chat request while files selected in another mode are still selected
C9_Witness ==
    /\ request.endpoint = Endpoint("chat")
    /\ workflow_mode = "chat"
    /\ file_widget # <<>>
    /\ request.files = <<>>

\* the last send was a message of white space only
BlankSubmitted ==
    /\ Len(chat_messages) > 1
    /\ chat_messages[Len(chat_messages) - 1].role = "user"
    /\ strip(chat_messages[Len(chat_messages) - 1].msg) = <<>>
    /\ "user_input" \in DOMAIN request.data => request.data.user_input # UploadMsg

\* C10: a request to the generate-boq endpoint carries a user_input that is
\* not blank; it is "Generate BOQ for uploaded files" when the message
\* submitted was blank.
C10_BoqDefaultText ==
    request.endpoint = Endpoint("boq") =>
        /\ "user_input" \in DOMAIN request.data
        /\ strip(request.data.user_input) # <<>>
        /\ BlankSubmitted => request.data.user_input = DefaultBoqMsg

\* a blank message sent with files in boq mode
C10_Witness ==
    /\ request.endpoint = Endpoint("boq")
    /\ BlankSubmitted
    /\ request.files # <<>>
    /\ request.data.user_input = DefaultBoqMsg

\* ---- cleanup and status (Spec) -------------------------------------------

\* the backend reported success: a 2xx response whose body is an object
\* with a true success field
ReportsSuccess(outcome) ==
    outcome.kind = "ok" /\ Succeeded(json_loads(outcome.body))

\* the transcript and the stored identifiers are as they were
Untouched ==
    /\ chat_messages' = chat_messages
    /\ Stored(session_state', "user_id") = Stored(session_state, "user_id")
    /\ Stored(session_state', "session_id") = Stored(session_state, "session_id")

\* the transcript is empty and the stored identifiers are as they were
OnlyCleared ==
    /\ chat_messages' = <<>>
    /\ Stored(session_state', "user_id") = Stored(session_state, "user_id")
    /\ Stored(session_state', "session_id") = Stored(session_state, "session_id")

\* the outcomes of the call in which the backend reported success, and the
\* others: the failures of the call
Successes == { outcome \in ApiOutcomes : ReportsSuccess(outcome) }
Failures == ApiOutcomes \ Successes

\* C11: a Cleanup whose call fails (connection, HTTP status, timeout, a body
\* that is no JSON or reports no success) and every Session Status, failed
\* or not, leave the transcript and the stored identifiers as they were; a
\* Cleanup empties the transcript exactly when the backend reported success,
\* and leaves the stored identifiers as they were then too. (Each line is
\* an implication from the step being that Cleanup or Session Status,
\* written with its conclusion first.)
C11_FailuresLeaveTranscript ==
    [][/\ \A outcome \in ApiOutcomes : Untouched \/ ~SessionStatus(outcome)
       /\ \A outcome \in Failures : Untouched \/ ~Cleanup(outcome)
       /\ \A outcome \in Successes : OnlyCleared \/ ~Cleanup(outcome)]_vars

\* a cleanup or status call failed on a body that is no JSON, the exception
\* left the handler, and the two entries of the transcript are still there
C11_Witness ==
    /\ Loaded
    /\ page.at = "sidebar"
    /\ page.exc # ""
    /\ Len(chat_messages) = 2
    /\ Stored(session_state, "user_id") = uuid4(1)

\* ---- the two identifiers (SpecIdentity) ----------------------------------

\* an identifier is a text typed into a field, or a generated one
Kind(id) ==
    IF id \in (UserIdTexts \cup SessionIdTexts) \ {""} THEN "override" ELSE "generated"

\* what a field's edits made of its identifier
Lane(field, active, stored) ==
    [entered |-> field # "", active |-> Kind(active), stored |-> Kind(stored)]

\* C12: the user id and the session id are resolved by the same rule: an
\* override in the field is the active identifier, and after the same edits
\* of the two fields (entered, kept, cleared) the active and the stored user
\* id are what the active and the stored session id are, an override or a
\* generated identifier alike.
C12_SameRule ==
    Loaded =>
        /\ user_id_input # "" => user_id = user_id_input
        /\ session_id_input # "" => session_id = session_id_input
        /\ Lane(user_id_input, user_id, Stored(session_state, "user_id"))
               = Lane(session_id_input, session_id, Stored(session_state, "session_id"))

====
